---- MODULE Spec2Model ----
(***************************************************************************)
(* Model of generate_icons.py: the icon renderer                           *)
(* create_family_health_icon(size) and the batch writer main().            *)
(*                                                                         *)
(* Two specifications:                                                     *)
(*   RenderSpec  one call of create_family_health_icon(size), statement by *)
(*               statement, following the colour of one probe pixel and    *)
(*               recording every call made to a drawing primitive;         *)
(*   Spec        main(): the loop over icon_sizes, the file system of the  *)
(*               output directory, the console, and a second run.          *)
(***************************************************************************)
EXTENDS Integers, Sequences, FiniteSets, TLC

VARIABLES
    \* ---- create_family_health_icon ----
    size,       \* the argument
    probe,      \* <<x, y>>: the pixel whose colour is followed
    rpc,        \* number of statements of the function executed so far
    img,        \* the image object: NoImage or [width, height]
    pix,        \* colour of the probe pixel in img
    calls,      \* the calls made to drawing primitives so far
    raised,     \* TRUE when a primitive rejected its arguments
    \* ---- main ----
    pc,         \* "idle", "loop", "save", "done", "crashed"
    i,          \* 1-based index of the current entry of icon_sizes
    icon,       \* the image returned by the renderer for the current entry
    fs,         \* output directory: file name -> content
    written,    \* file names written by the current run, in order
    rendered,   \* sizes passed to the renderer by the current run, in order
    out,        \* console lines printed by the current run
    run,        \* 1 for the first run of main(), 2 for the second
    snap,       \* the directory as the first run left it
    tampered    \* number of changes made to the directory between the runs

rvars == <<size, probe, rpc, img, pix, calls, raised>>
mvars == <<pc, i, icon, fs, written, rendered, out, run, snap, tampered>>
vars  == <<size, probe, rpc, img, pix, calls, raised,
           pc, i, icon, fs, written, rendered, out, run, snap, tampered>>

----------------------------------------------------------------------------
(* Bounds *)

\* sizes 1..MaxSize are rendered in RenderSpec
MaxSize == 1024
\* for sizes up to FullRaster every pixel of the image is a probe
FullRaster == 6
\* at most MaxPre icon files exist before the first run
MaxPre == 1
\* at most MaxTamper files are deleted or replaced between the two runs
MaxTamper == 1

----------------------------------------------------------------------------
(* Arithmetic of the renderer *)

\* the design canvas: scale = size / 1024.0
DesignCanvas == 1024

\* int(k * scale) with scale = size / 1024.0.  size / 1024.0 and k * scale
\* are exact in binary floating point (division by a power of two, products
\* far below 2^53), and int() truncates toward zero, so the result is the
\* integer quotient.
int(k, n) == (k * n) \div DesignCanvas

Abs(x) == IF x < 0 THEN -x ELSE x

----------------------------------------------------------------------------
(* Colours *)

transparent == <<0, 0, 0, 0>>
bg_color    == <<74, 144, 226, 255>>
\* (fault variant: the silhouettes drawn fully opaque)
white_opaque == <<255, 255, 255, 255>>

white       == <<255, 255, 255, 230>>
heart_color == <<255, 107, 107, 255>>
cross_color == <<255, 255, 255, 230>>

----------------------------------------------------------------------------
(* Calls to the drawing primitives.  xy is the coordinate list passed,     *)
(* radius the corner radius (0 where the primitive takes none).            *)

Ellipse(xy, fill) ==
    [prim |-> "ellipse", xy |-> xy, radius |-> 0, fill |-> fill]
RoundedRectangle(xy, r, fill) ==
    [prim |-> "rounded_rectangle", xy |-> xy, radius |-> r, fill |-> fill]
Rectangle(xy, fill) ==
    [prim |-> "rectangle", xy |-> xy, radius |-> 0, fill |-> fill]
Polygon(xy, fill) ==
    [prim |-> "polygon", xy |-> xy, radius |-> 0, fill |-> fill]

\* Background disc
background(n) == Ellipse(<<0, 0, n, n>>, bg_color)

\* Parent 1 (left)
parent1_head(n) ==
    LET parent1_x == int(300, n)
        parent1_y == int(400, n)
        parent1_radius == int(60, n)
    IN  Ellipse(<<parent1_x - parent1_radius, parent1_y - parent1_radius,
                  parent1_x + parent1_radius, parent1_y + parent1_radius>>,
                white)

parent1_body(n) ==
    LET parent1_body_x == int(270, n)
        parent1_body_y == int(460, n)
        parent1_body_w == int(60, n)
        parent1_body_h == int(120, n)
    IN  RoundedRectangle(<<parent1_body_x, parent1_body_y,
                           parent1_body_x + parent1_body_w,
                           parent1_body_y + parent1_body_h>>,
                         int(30, n), white)

\* Parent 2 (right)
parent2_head(n) ==
    LET parent2_x == int(724, n)
        parent2_y == int(400, n)
        parent2_radius == int(60, n)
    IN  Ellipse(<<parent2_x - parent2_radius, parent2_y - parent2_radius,
                  parent2_x + parent2_radius, parent2_y + parent2_radius>>,
                white)

parent2_body(n) ==
    LET parent2_body_x == int(694, n)
        parent2_body_y == int(460, n)
        parent2_body_w == int(60, n)
        parent2_body_h == int(120, n)
    IN  RoundedRectangle(<<parent2_body_x, parent2_body_y,
                           parent2_body_x + parent2_body_w,
                           parent2_body_y + parent2_body_h>>,
                         int(30, n), white)

\* Child 1 (center-left)
child1_head(n) ==
    LET child1_x == int(400, n)
        child1_y == int(500, n)
        child1_radius == int(40, n)
    IN  Ellipse(<<child1_x - child1_radius, child1_y - child1_radius,
                  child1_x + child1_radius, child1_y + child1_radius>>,
                white)

child1_body(n) ==
    LET child1_body_x == int(380, n)
        child1_body_y == int(540, n)
        child1_body_w == int(40, n)
        child1_body_h == int(80, n)
    IN  RoundedRectangle(<<child1_body_x, child1_body_y,
                           child1_body_x + child1_body_w,
                           child1_body_y + child1_body_h>>,
                         int(20, n), white)

\* Child 2 (center-right)
child2_head(n) ==
    LET child2_x == int(624, n)
        child2_y == int(500, n)
        child2_radius == int(40, n)
    IN  Ellipse(<<child2_x - child2_radius, child2_y - child2_radius,
                  child2_x + child2_radius, child2_y + child2_radius>>,
                white)

child2_body(n) ==
    LET child2_body_x == int(604, n)
        child2_body_y == int(540, n)
        child2_body_w == int(40, n)
        child2_body_h == int(80, n)
    IN  RoundedRectangle(<<child2_body_x, child2_body_y,
                           child2_body_x + child2_body_w,
                           child2_body_y + child2_body_h>>,
                         int(20, n), white)

\* Heart: two circles and a triangle
\* (fault variant: heart_left computed with the wrong sign)
heart_left_lobe_slip(n) ==
    LET heart_x == int(512, n)
        heart_y == int(650, n)
        heart_size == int(60, n)
        heart_left == heart_x + heart_size
        heart_top == heart_y - heart_size
    IN  Ellipse(<<heart_left, heart_top, heart_x, heart_y>>, heart_color)

heart_left_lobe(n) ==
    LET heart_x == int(512, n)
        heart_y == int(650, n)
        heart_size == int(60, n)
        heart_left == heart_x - heart_size
        heart_top == heart_y - heart_size
    IN  Ellipse(<<heart_left, heart_top, heart_x, heart_y>>, heart_color)

\* (fault variant: the lobe drawn as a disc of radius heart_size around
\*  (heart_x + heart_size, heart_y - heart_size))
heart_right_lobe_wide(n) ==
    LET heart_x == int(512, n)
        heart_y == int(650, n)
        heart_size == int(60, n)
        heart_right == heart_x + heart_size
        heart_top == heart_y - heart_size
    IN  Ellipse(<<heart_right - heart_size, heart_top - heart_size,
                  heart_right + heart_size, heart_top + heart_size>>,
                heart_color)

heart_right_lobe(n) ==
    LET heart_x == int(512, n)
        heart_y == int(650, n)
        heart_size == int(60, n)
        heart_right == heart_x + heart_size
        heart_top == heart_y - heart_size
    IN  Ellipse(<<heart_x, heart_top, heart_right, heart_y>>, heart_color)

heart_triangle(n) ==
    LET heart_x == int(512, n)
        heart_y == int(650, n)
        heart_size == int(60, n)
        heart_left == heart_x - heart_size
        heart_right == heart_x + heart_size
        heart_bottom == heart_y + heart_size
    IN  Polygon(<<heart_x, heart_y, heart_left, heart_bottom,
                  heart_right, heart_bottom>>, heart_color)

\* Health cross
\* (fault variant: the bar starts at design row 500 instead of 520)
cross_vertical_high(n) ==
    LET cross_x == int(500, n)
        cross_y == int(500, n)
        cross_w == int(24, n)
        cross_h == int(80, n)
    IN  Rectangle(<<cross_x, cross_y, cross_x + cross_w, cross_y + cross_h>>,
                  cross_color)

\* (fault variant: the far corner truncated from the summed design
\*  coordinates instead of summing the truncated parts)
cross_vertical_summed(n) ==
    Rectangle(<<int(500, n), int(520, n), int(500 + 24, n), int(520 + 80, n)>>,
              cross_color)

cross_vertical(n) ==
    LET cross_x == int(500, n)
        cross_y == int(520, n)
        cross_w == int(24, n)
        cross_h == int(80, n)
    IN  Rectangle(<<cross_x, cross_y, cross_x + cross_w, cross_y + cross_h>>,
                  cross_color)

\* (fault variant: the bar offset upward instead of downward)
cross_horizontal_up(n) ==
    LET cross_x == int(500, n)
        cross_y == int(520, n)
        cross_h_w == int(64, n)
        cross_h_h == int(24, n)
    IN  Rectangle(<<cross_x - int(20, n), cross_y - int(20, n),
                    cross_x + cross_h_w - int(20, n),
                    cross_y - int(20, n) + cross_h_h>>, cross_color)

cross_horizontal(n) ==
    LET cross_x == int(500, n)
        cross_y == int(520, n)
        cross_h_w == int(64, n)
        cross_h_h == int(24, n)
    IN  Rectangle(<<cross_x - int(20, n), cross_y + int(20, n),
                    cross_x + cross_h_w - int(20, n),
                    cross_y + int(20, n) + cross_h_h>>, cross_color)

\* The drawing statements of the function, in program order.
DrawCalls(n) ==
    << background(n),
       parent1_head(n), parent1_body(n), parent2_head(n), parent2_body(n),
       child1_head(n), child1_body(n), child2_head(n), child2_body(n),
       heart_left_lobe(n), heart_right_lobe(n), heart_triangle(n),
       cross_vertical(n), cross_horizontal(n) >>

----------------------------------------------------------------------------
(* The primitives of the imaging library, as far as the program relies on  *)
(* them.  The rasteriser of curved and slanted outlines is not part of the *)
(* program: a pixel outside the bounding box of a shape is never painted,  *)
(* a pixel well inside an ellipse is always painted, and for the pixels in *)
(* between either outcome is allowed.  A rectangle paints exactly its      *)
(* bounds, both ends included.  A fill replaces the pixel.                 *)

Min(a, b) == IF a < b THEN a ELSE b
Max(a, b) == IF a > b THEN a ELSE b

\* bounding box <<x0, y0, x1, y1>> of the coordinates of a call
BBox(c) ==
    IF c.prim = "polygon"
    THEN <<Min(c.xy[1], Min(c.xy[3], c.xy[5])),
           Min(c.xy[2], Min(c.xy[4], c.xy[6])),
           Max(c.xy[1], Max(c.xy[3], c.xy[5])),
           Max(c.xy[2], Max(c.xy[4], c.xy[6]))>>
    ELSE c.xy

InBox(b, p) == b[1] <= p[1] /\ p[1] <= b[3] /\ b[2] <= p[2] /\ p[2] <= b[4]

\* the primitive raises ValueError: x1 < x0, y1 < y0 or a negative radius
Rejects(c) ==
    /\ c.prim # "polygon"
    /\ \/ c.xy[3] < c.xy[1]
       \/ c.xy[4] < c.xy[2]
       \/ c.radius < 0

\* the call may paint pixel p
MayPaint(c, p) == InBox(BBox(c), p)

\* the call certainly paints pixel p
MustPaint(c, p) ==
    LET b == BBox(c)
        w == b[3] - b[1]
        h == b[4] - b[2]
    IN  CASE c.prim = "rectangle" -> InBox(b, p)
          [] c.prim = "rounded_rectangle" -> c.radius = 0 /\ InBox(b, p)
          [] c.prim = "ellipse" ->
                /\ w >= 4 /\ h >= 4
                /\ 2 * Abs(2 * p[1] - b[1] - b[3]) <= w
                /\ 2 * Abs(2 * p[2] - b[2] - b[4]) <= h
          [] OTHER -> FALSE

\* the outcomes of a call for pixel p: painted or not
Paints(c, p) == {b \in BOOLEAN : (MustPaint(c, p) => b) /\ (b => MayPaint(c, p))}

----------------------------------------------------------------------------
(* create_family_health_icon(size), statement by statement *)

NoImage == [width |-> -1, height |-> -1]
NoPixel == <<-1, -1, -1, -1>>

\* Image.new('RGBA', (size, size), (0, 0, 0, 0))
ImageNew(n) == [width |-> n, height |-> n]

\* the pixels followed: every pixel of a small image; for a larger one the
\* corner, the centre and points of the design scaled to the image
DesignPoints ==
    { <<0, 0>>, <<512, 512>>, <<300, 400>>, <<482, 620>>, <<512, 560>>,
      <<512, 552>>, <<300, 520>> }

Probes(n) ==
    IF n <= FullRaster
    THEN (0 .. n - 1) \X (0 .. n - 1)
    ELSE { <<int(d[1], n), int(d[2], n)>> : d \in DesignPoints }

\* position of each statement in the function
Statements ==
    << "background",
       "parent1_head", "parent1_body", "parent2_head", "parent2_body",
       "child1_head", "child1_body", "child2_head", "child2_body",
       "heart_left_lobe", "heart_right_lobe", "heart_triangle",
       "cross_vertical", "cross_horizontal" >>

NumStatements == Len(Statements)

RenderInit ==
    /\ size \in 1 .. MaxSize
    /\ probe \in Probes(size)
    /\ rpc = 0
    /\ img = NoImage
    /\ pix = NoPixel
    /\ calls = <<>>
    /\ raised = FALSE
    /\ pc = "idle" /\ i = 0 /\ icon = NoImage /\ fs = <<>>
    /\ written = <<>> /\ rendered = <<>> /\ out = <<>>
    /\ run = 0 /\ snap = <<>> /\ tampered = 0

\* img = Image.new(...); draw = ImageDraw.Draw(img)
NewImage ==
    /\ rpc = 0 /\ img = NoImage /\ ~raised
    /\ img' = ImageNew(size)
    /\ pix' = transparent
    /\ rpc' = 1
    /\ UNCHANGED <<size, probe, calls, raised>>
    /\ UNCHANGED mvars

\* the k-th drawing statement
Draw(k) ==
    /\ rpc = k /\ img # NoImage /\ ~raised
    /\ LET c == DrawCalls(size)[k]
       IN  /\ calls' = Append(calls, c)
           /\ IF Rejects(c)
              THEN /\ raised' = TRUE
                   /\ UNCHANGED <<pix, rpc>>
              ELSE /\ \E b \in Paints(c, probe) :
                        pix' = IF b THEN c.fill ELSE pix
                   /\ rpc' = k + 1
                   /\ UNCHANGED raised
    /\ UNCHANGED <<size, probe, img>>
    /\ UNCHANGED mvars

DrawBackground  == Draw(1)
DrawParent1Head == Draw(2)
DrawParent1Body == Draw(3)
DrawParent2Head == Draw(4)
DrawParent2Body == Draw(5)
DrawChild1Head  == Draw(6)
DrawChild1Body  == Draw(7)
DrawChild2Head  == Draw(8)
DrawChild2Body  == Draw(9)
DrawHeartLeft   == Draw(10)
DrawHeartRight  == Draw(11)
DrawHeartTriangle == Draw(12)
DrawCrossVertical == Draw(13)
DrawCrossHorizontal == Draw(14)

\* return img
Return ==
    /\ rpc = NumStatements + 1 /\ ~raised
    /\ rpc' = NumStatements + 2
    /\ UNCHANGED <<size, probe, img, pix, calls, raised>>
    /\ UNCHANGED mvars

Returned == rpc = NumStatements + 2

RenderNext ==
    \/ NewImage
    \/ DrawBackground
    \/ DrawParent1Head
    \/ DrawParent1Body
    \/ DrawParent2Head
    \/ DrawParent2Body
    \/ DrawChild1Head
    \/ DrawChild1Body
    \/ DrawChild2Head
    \/ DrawChild2Body
    \/ DrawHeartLeft
    \/ DrawHeartRight
    \/ DrawHeartTriangle
    \/ DrawCrossVertical
    \/ DrawCrossHorizontal
    \/ Return

RenderSpec == RenderInit /\ [][RenderNext]_vars

----------------------------------------------------------------------------
(* main() *)

\* the whole renderer as main() sees it: the returned image and what was
\* drawn on it
create_family_health_icon(n) ==
    [width |-> ImageNew(n).width, height |-> ImageNew(n).height,
     calls |-> DrawCalls(n)]

\* the renderer raises when a primitive rejects its arguments
RendererRaises(n) == \E k \in 1 .. Len(DrawCalls(n)) : Rejects(DrawCalls(n)[k])

NoIcon == [width |-> -1, height |-> -1, calls |-> <<>>]

\* icon_sizes; a size is written in tenths of a pixel, so 835 is 83.5
\* (fault variant: two entries exchanged)
icon_sizes_swapped ==
    << <<200, "icon_20.png">>,
       <<290, "icon_29.png">>,
       <<400, "icon_40.png">>,
       <<600, "icon_60.png">>,
       <<835, "icon_83.5.png">>,
       <<760, "icon_76.png">>,
       <<1200, "icon_120.png">>,
       <<1520, "icon_152.png">>,
       <<1670, "icon_167.png">>,
       <<10240, "icon_1024.png">> >>

icon_sizes ==
    << <<200, "icon_20.png">>,
       <<290, "icon_29.png">>,
       <<400, "icon_40.png">>,
       <<600, "icon_60.png">>,
       <<760, "icon_76.png">>,
       <<835, "icon_83.5.png">>,
       <<1200, "icon_120.png">>,
       <<1520, "icon_152.png">>,
       <<1670, "icon_167.png">>,
       <<10240, "icon_1024.png">> >>

\* int(size) for a size in tenths: truncation
\* (fault variant: rounding to the nearest integer)
int_of_rounded(t) == (t + 5) \div 10

int_of(t) == t \div 10

output_dir == "RecipeApp/Assets.xcassets/AppIcon.appiconset"

\* os.path.join(output_dir, filename)
join(dir, filename) == <<dir, filename>>

\* the files of the output directory: the icons and the catalogue's index
IconPaths == { join(output_dir, icon_sizes[k][2]) : k \in 1 .. Len(icon_sizes) }
OtherPath == join(output_dir, "Contents.json")
Paths == IconPaths \cup {OtherPath}

Absent == [kind |-> "absent"]
Stale  == [kind |-> "stale"]

\* icon.save(path, "PNG"): the encoded image
PngEncode(image) ==
    [kind |-> "png", width |-> image.width, height |-> image.height,
     calls |-> image.calls]

CompletionLine == <<"All icons generated successfully!">>

Init ==
    /\ pc = "loop"
    /\ i = 1
    /\ icon = NoIcon
    /\ \E pre \in SUBSET IconPaths :
          /\ Cardinality(pre) <= MaxPre
          /\ fs = [p \in Paths |-> IF p \in pre \/ p = OtherPath
                                   THEN Stale ELSE Absent]
    /\ written = <<>>
    /\ rendered = <<>>
    /\ out = <<>>
    /\ run = 1
    /\ snap = [p \in Paths |-> Absent]
    /\ tampered = 0
    /\ size = 0 /\ probe = <<0, 0>> /\ rpc = 0 /\ img = NoImage
    /\ pix = NoPixel /\ calls = <<>> /\ raised = FALSE

\* for size, filename in icon_sizes: print(...);
\* icon = create_family_health_icon(int(size))
Generate ==
    /\ pc = "loop" /\ i <= Len(icon_sizes)
    /\ LET sz == icon_sizes[i][1]
           filename == icon_sizes[i][2]
       IN  /\ out' = Append(out, <<"Generating", filename, sz, sz>>)
           /\ rendered' = Append(rendered, int_of(sz))
           /\ IF RendererRaises(int_of(sz))
              THEN pc' = "crashed" /\ UNCHANGED icon
              ELSE pc' = "save" /\ icon' = create_family_health_icon(int_of(sz))
    /\ UNCHANGED <<i, fs, written, run, snap, tampered>>
    /\ UNCHANGED rvars

\* icon.save(os.path.join(output_dir, filename), "PNG") succeeds
\* (fault variant: an existing file is left as it is)
SaveOK_keep ==
    /\ pc = "save"
    /\ LET path == join(output_dir, icon_sizes[i][2])
       IN  /\ fs' = IF fs[path] = Absent
                    THEN [fs EXCEPT ![path] = PngEncode(icon)]
                    ELSE fs
           /\ written' = Append(written, path)
    /\ i' = i + 1
    /\ pc' = "loop"
    /\ UNCHANGED <<icon, rendered, out, run, snap, tampered>>
    /\ UNCHANGED rvars

SaveOK ==
    /\ pc = "save"
    /\ LET path == join(output_dir, icon_sizes[i][2])
       IN  /\ fs' = [fs EXCEPT ![path] = PngEncode(icon)]
           /\ written' = Append(written, path)
    /\ i' = i + 1
    /\ pc' = "loop"
    /\ UNCHANGED <<icon, rendered, out, run, snap, tampered>>
    /\ UNCHANGED rvars

\* icon.save raises (directory missing or not writable); nothing catches it
\* (fault variant: the error is swallowed and the loop goes on)
SaveFail_swallowed ==
    /\ pc = "save"
    /\ i' = i + 1
    /\ pc' = "loop"
    /\ UNCHANGED <<icon, fs, written, rendered, out, run, snap, tampered>>
    /\ UNCHANGED rvars

SaveFail ==
    /\ pc = "save"
    /\ pc' = "crashed"
    /\ UNCHANGED <<i, icon, fs, written, rendered, out, run, snap, tampered>>
    /\ UNCHANGED rvars

\* print("All icons generated successfully!")
Finish ==
    /\ pc = "loop" /\ i > Len(icon_sizes)
    /\ out' = Append(out, CompletionLine)
    /\ pc' = "done"
    /\ UNCHANGED <<i, icon, fs, written, rendered, run, snap, tampered>>
    /\ UNCHANGED rvars

\* the program is started again after a successful run; snap remembers what
\* the first run left
Rerun ==
    /\ pc = "done" /\ run = 1
    /\ snap' = fs
    /\ run' = 2
    /\ pc' = "loop"
    /\ i' = 1
    /\ icon' = NoIcon
    /\ written' = <<>>
    /\ rendered' = <<>>
    /\ out' = <<>>
    /\ UNCHANGED <<fs, tampered>>
    /\ UNCHANGED rvars

\* before the second run starts, somebody deletes or replaces an icon file
Tamper ==
    /\ pc = "loop" /\ run = 2 /\ i = 1 /\ tampered < MaxTamper
    /\ \E p \in IconPaths, c \in {Absent, Stale} :
          /\ fs[p] # c
          /\ fs' = [fs EXCEPT ![p] = c]
    /\ tampered' = tampered + 1
    /\ UNCHANGED <<pc, i, icon, written, rendered, out, run, snap>>
    /\ UNCHANGED rvars

MainStep == Generate \/ SaveOK \/ SaveFail \/ Finish

Next ==
    \/ Generate
    \/ SaveOK
    \/ SaveFail
    \/ Finish
    \/ Rerun
    \/ Tamper

Spec == Init /\ [][Next]_vars

----------------------------------------------------------------------------
(* Properties of main() *)

ExpectedNames ==
    << "icon_20.png", "icon_29.png", "icon_40.png", "icon_60.png",
       "icon_76.png", "icon_83.5.png", "icon_120.png", "icon_152.png",
       "icon_167.png", "icon_1024.png" >>

ExpectedPixels == <<20, 29, 40, 60, 76, 83, 120, 152, 167, 1024>>

ExpectedPath(k) == <<"RecipeApp/Assets.xcassets/AppIcon.appiconset", ExpectedNames[k]>>

IsPrefix(s, t) ==
    /\ Len(s) <= Len(t)
    /\ \A k \in 1 .. Len(s) : s[k] = t[k]

\* C1: the files written by a run are the ten names of the list under the
\* output directory, each once and in list order; an entry is rendered and
\* written before the next one is started; a run that ends without a failed
\* write has written all ten, and no other file of the directory changes.
C1_TenFilesInOrder ==
    /\ Len(written) <= 10
    /\ \A k \in 1 .. Len(written) : written[k] = ExpectedPath(k)
    /\ IsPrefix(rendered, ExpectedPixels)
    /\ Len(written) <= Len(rendered)
    /\ Len(rendered) <= Len(written) + 1
    /\ fs[<<"RecipeApp/Assets.xcassets/AppIcon.appiconset", "Contents.json">>] = Stale
    /\ pc = "done" =>
          /\ Len(written) = 10
          /\ \A k \in 1 .. 10 : fs[ExpectedPath(k)].kind = "png"

C1_Witness == pc = "done" /\ run = 1 /\ Len(written) = 10

\* C2: the image saved for an entry is square with side the entry's size
\* truncated to an integer; icon_83.5.png holds an 83 x 83 image.
C2_SavedDimensions ==
    /\ \A k \in 1 .. Len(written) :
          LET c == fs[written[k]]
          IN  /\ c.kind = "png"
              /\ c.width = ExpectedPixels[k]
              /\ c.height = ExpectedPixels[k]
    /\ pc = "save" => icon.width = ExpectedPixels[i] /\ icon.height = ExpectedPixels[i]
    /\ Len(written) >= 6 =>
          /\ written[6][2] = "icon_83.5.png"
          /\ fs[written[6]].width = 83
          /\ fs[written[6]].height = 83

C2_Witness ==
    /\ Len(written) = 6
    /\ fs[<<output_dir, "icon_83.5.png">>].kind = "png"
    /\ fs[<<output_dir, "icon_83.5.png">>].width = 83

\* C3: when the write of entry k fails the run stops there: entries 1..k-1
\* are the files written, entry k is the last one rendered, the completion
\* line is not printed and no statement of main() runs any more; the
\* completion line is printed only after ten successful writes.
C3_FailedWriteStopsRun ==
    /\ pc = "crashed" =>
          /\ Len(rendered) = Len(written) + 1
          /\ Len(rendered) = i
          /\ \A k \in 1 .. Len(written) : written[k] = ExpectedPath(k)
          /\ \A k \in 1 .. Len(out) : out[k] # CompletionLine
          /\ ~ENABLED MainStep
    /\ (\E k \in 1 .. Len(out) : out[k] = CompletionLine) =>
          /\ pc = "done"
          /\ Len(written) = 10

C3_Witness ==
    /\ pc = "crashed"
    /\ Len(written) = 5
    /\ Len(rendered) = 6

\* C8: a second successful run leaves every icon file with the content the
\* first successful run left, whatever was in the directory before either
\* run; the content of a file is fixed by the pixel size of its entry.
C8_SecondRunIdentical ==
    /\ (run = 2 /\ pc = "done") =>
          \A k \in 1 .. 10 : fs[ExpectedPath(k)] = snap[ExpectedPath(k)]
    /\ \A k \in 1 .. Len(written) :
          fs[written[k]] = PngEncode(create_family_health_icon(ExpectedPixels[k]))

C8_Witness == run = 2 /\ pc = "done" /\ tampered = 1

----------------------------------------------------------------------------
(* Properties of create_family_health_icon *)

BatchPixels == {20, 29, 40, 60, 76, 83, 120, 152, 167, 1024}

\* truncation of a design coordinate k scaled to an image of side n
Trunc(k, n) == (k * n) \div 1024

Centre(n) == <<n \div 2, n \div 2>>

\* C4: for every positive size the renderer raises nothing: every box
\* passed to ellipse, rounded_rectangle and rectangle has x1 >= x0 and
\* y1 >= y0, and every corner radius is >= 0.
C4_NoPrimitiveRejects ==
    /\ ~raised
    /\ \A k \in 1 .. Len(calls) :
          calls[k].prim \in {"ellipse", "rounded_rectangle", "rectangle"} =>
             /\ calls[k].xy[3] >= calls[k].xy[1]
             /\ calls[k].xy[4] >= calls[k].xy[2]
             /\ calls[k].radius >= 0

C4_Witness == Returned /\ size = 1 /\ Len(calls) = 14 /\ ~raised

\* C5 as stated: for every size of the batch list the centre pixel of the
\* returned image has the background colour.
C5_CentreIsBackground ==
    (Returned /\ size \in BatchPixels /\ probe = Centre(size)) =>
        pix = <<74, 144, 226, 255>>

\* C5 amended: the centre pixel of the returned image has the background
\* colour for the sizes 83, 152, 167 and 1024; for the sizes 20, 29, 40, 60,
\* 76 and 120 a bar of the cross covers it and it is (255,255,255,230).
C5_CentreBySize ==
    (Returned /\ size \in BatchPixels /\ probe = Centre(size)) =>
        IF size \in {83, 152, 167, 1024}
        THEN pix = <<74, 144, 226, 255>>
        ELSE pix = <<255, 255, 255, 230>>

C5_Witness ==
    /\ Returned /\ size = 83 /\ probe = <<41, 41>>
    /\ pix = <<74, 144, 226, 255>>

\* C6 as stated: in the image of size 1024 the pixel (512,512) does not
\* have the background colour.
C6_CentreOnCross ==
    (Returned /\ size = 1024 /\ probe = <<512, 512>>) =>
        pix # <<74, 144, 226, 255>>

\* C6 amended: in the image of size 1024 the pixel (512,512) lies outside
\* the bounding box of every shape drawn after the background disc (the
\* cross begins at row 520, the heart at row 590), and from the background
\* disc on its colour is the background colour.
C6_CentreAboveCross ==
    (size = 1024 /\ probe = <<512, 512>>) =>
        /\ \A k \in 2 .. Len(calls) : ~InBox(BBox(calls[k]), <<512, 512>>)
        /\ rpc >= 2 => pix = <<74, 144, 226, 255>>
        /\ Len(calls) >= 13 => calls[13].xy[2] = 520
        /\ Len(calls) >= 10 => calls[10].xy[2] = 590

C6_Witness ==
    /\ Returned /\ size = 1024 /\ probe = <<512, 512>>
    /\ Len(calls) = 14

\* C7: once the image exists, after every drawing statement and in the
\* returned image, the pixel has one of the four colours (0,0,0,0),
\* (74,144,226,255), (255,255,255,230), (255,107,107,255).
C7_PaletteClosed ==
    img # NoImage =>
        pix \in { <<0, 0, 0, 0>>, <<74, 144, 226, 255>>,
                  <<255, 255, 255, 230>>, <<255, 107, 107, 255>> }

C7_Witness == Returned /\ pix = <<255, 107, 107, 255>>

\* C9 as stated: at size 1024 the heart's ellipses are the discs of radius
\* 60 around (452,590) and (572,590).
C9_HeartDiscsRadius60 ==
    (size = 1024 /\ Len(calls) >= 11) =>
        /\ calls[10].xy = <<452 - 60, 590 - 60, 452 + 60, 590 + 60>>
        /\ calls[11].xy = <<572 - 60, 590 - 60, 572 + 60, 590 + 60>>

\* C9 amended: the heart is two discs of diameter heart_size, inscribed in
\* the boxes (heart_x - heart_size, heart_y - heart_size, heart_x, heart_y)
\* and (heart_x, heart_y - heart_size, heart_x + heart_size, heart_y), plus
\* the triangle (heart_x, heart_y), (heart_x - heart_size, heart_y +
\* heart_size), (heart_x + heart_size, heart_y + heart_size), with heart_x,
\* heart_y, heart_size the truncations of 512*s, 650*s, 60*s; at size 1024
\* the boxes are those of the discs of radius 30 around (482,620) and
\* (542,620).
C9_HeartDiscsDiameter60 ==
    LET hx == Trunc(512, size)
        hy == Trunc(650, size)
        hs == Trunc(60, size)
    IN  /\ Len(calls) >= 10 =>
              /\ calls[10].prim = "ellipse"
              /\ calls[10].xy = <<hx - hs, hy - hs, hx, hy>>
        /\ Len(calls) >= 11 =>
              /\ calls[11].prim = "ellipse"
              /\ calls[11].xy = <<hx, hy - hs, hx + hs, hy>>
        /\ Len(calls) >= 12 =>
              /\ calls[12].prim = "polygon"
              /\ calls[12].xy = <<hx, hy, hx - hs, hy + hs, hx + hs, hy + hs>>
        /\ (size = 1024 /\ Len(calls) >= 11) =>
              /\ calls[10].xy = <<482 - 30, 620 - 30, 482 + 30, 620 + 30>>
              /\ calls[11].xy = <<542 - 30, 620 - 30, 542 + 30, 620 + 30>>

C9_Witness ==
    /\ size = 1024 /\ Len(calls) = 12
    /\ calls[10].xy = <<452, 590, 512, 650>>

\* C10 as stated: for every size of the batch list the bars of the cross
\* run between the truncated design corners.
C10_CrossCornersTruncated ==
    (size \in BatchPixels /\ Len(calls) = 14) =>
        /\ calls[13].xy = <<Trunc(500, size), Trunc(520, size),
                            Trunc(524, size), Trunc(600, size)>>
        /\ calls[14].xy = <<Trunc(480, size), Trunc(540, size),
                            Trunc(544, size), Trunc(564, size)>>

\* C10 amended: each bar starts at truncated design coordinates and extends
\* by truncated design extents: the vertical bar runs from (trunc(500*s),
\* trunc(520*s)) to (trunc(500*s) + trunc(24*s), trunc(520*s) + trunc(80*s)),
\* the horizontal bar from (trunc(500*s) - trunc(20*s), trunc(520*s) +
\* trunc(20*s)) to (trunc(500*s) + trunc(64*s) - trunc(20*s), trunc(520*s) +
\* trunc(20*s) + trunc(24*s)); at size 1024 these are the design corners.
C10_CrossCornersSummed ==
    /\ (size \in BatchPixels /\ Len(calls) = 14) =>
        /\ calls[13].xy =
              <<Trunc(500, size), Trunc(520, size),
                Trunc(500, size) + Trunc(24, size),
                Trunc(520, size) + Trunc(80, size)>>
        /\ calls[14].xy =
              <<Trunc(500, size) - Trunc(20, size),
                Trunc(520, size) + Trunc(20, size),
                Trunc(500, size) + Trunc(64, size) - Trunc(20, size),
                Trunc(520, size) + Trunc(20, size) + Trunc(24, size)>>
    /\ (size = 1024 /\ Len(calls) = 14) =>
        /\ calls[13].xy = <<500, 520, 524, 600>>
        /\ calls[14].xy = <<480, 540, 544, 564>>

C10_Witness ==
    /\ size = 20 /\ Len(calls) = 14
    /\ calls[13].xy = <<9, 10, 9, 11>>
    /\ calls[14].xy = <<9, 10, 10, 10>>

====
